---- MODULE Spec2Model ----
(***************************************************************************)
(* Model of the configuration manager of src/config.go: New builds the     *)
(* candidate path list, decodes the default document into the caller's     *)
(* configuration object and optionally loads; LoadConfig searches the      *)
(* candidate paths in order and overlays the first file that reads and     *)
(* decodes.  The filesystem is the environment: files appear, change and   *)
(* disappear between calls.                                                *)
(***************************************************************************)
EXTENDS Integers, Sequences, FiniteSets, TLC

VARIABLES
    args,        \* the arguments the program passes to New
    pc,          \* position of the process: start, returned, failed, exit0, exit1
    confPaths,   \* Manager.confPaths
    Conf,        \* the caller's configuration object (Manager.Conf points to it)
    fs,          \* the filesystem, candidate path -> file
    lastErr,     \* what the most recent LoadConfig call returned
    readLog,     \* candidate indices ioutil.ReadFile was called on by that call
    loadedKeys,  \* keys of the document that call decoded successfully
    dirty,       \* the filesystem changed after the most recent LoadConfig call
    written      \* the ioutil.WriteFile call New made, if any

vars == <<args, pc, confPaths, Conf, fs, lastErr, readLog, loadedKeys, dirty, written>>

----------------------------------------------------------------------------
(* Bounds of the model *)

\* at most this many files exist at the candidate paths at one time
MaxFiles == 2

\* the fields of the configuration struct whose values are followed
Fields == {"a"}

\* the values a document can give a field (0 is the Go zero value of a field)
Values == {1, 2}

\* the inputs New is called with
ConfDirs == {"", "/opt/app"}
FileNames == {"app.toml", ""}
Home == "/home/user"

----------------------------------------------------------------------------
(* Documents and files *)

\* the key/value tables a TOML text can hold: any subset of the fields, each with a value
Tables == UNION {[S -> Values] : S \in SUBSET Fields}
EmptyTable == [f \in {} |-> 0]

\* a TOML text: "ok" decodes; "type" parses, but one of its keys (a key of
\* the struct that is not followed, so not among vals) has a value of the
\* wrong type for its field; "syntax" does not parse
Docs ==
    {[kind |-> k, vals |-> t] : k \in {"ok", "type"}, t \in Tables}
        \cup {[kind |-> "syntax", vals |-> EmptyTable]}

\* what a path holds: nothing, a file that cannot be read, or a file with a text
Absent == [kind |-> "absent", vals |-> EmptyTable]
Unreadable == [kind |-> "unreadable", vals |-> EmptyTable]
Files == Docs \cup {Absent, Unreadable}

\* the configuration struct before anything is decoded into it
ZeroConf == [f \in Fields |-> 0]

\* the default documents New is given: a well-formed one and malformed ones
DefaultDocs ==
    {[kind |-> k, vals |-> [f \in Fields |-> 1]] : k \in {"ok", "type"}}
        \cup {[kind |-> "syntax", vals |-> EmptyTable]}

\* the permission bits New passes to ioutil.WriteFile, 0644
FilePerm == 420

----------------------------------------------------------------------------
(* New, lines 60-67: the candidate paths, in priority order *)

MkConfPaths(confDir, fileName) ==
    << confDir \o "/" \o fileName,
       fileName,
       Home \o "/.config/" \o fileName,
       "/usr/local/etc/" \o fileName,
       "/etc/" \o fileName >>

\* every path some call of New can make a candidate; with an empty file name
\* the candidates name directories (or nothing), which hold no file
AllPaths ==
    UNION {{MkConfPaths(d, n)[i] : i \in 1..5} : d \in ConfDirs, n \in FileNames \ {""}}

\* the candidate paths of these arguments that can hold a file
CandidateFiles(a) ==
    {MkConfPaths(a.confDir, a.fileName)[i] : i \in 1..5} \cap AllPaths

----------------------------------------------------------------------------
(* toml.Decode(text, c.Conf), lines 75 and 130 *)

\* conf with the keys in keys taken from table t
Overlay(conf, t, keys) ==
    [f \in Fields |-> IF f \in keys THEN t[f] ELSE conf[f]]

\* The outcomes of decoding d into conf.  The text is parsed first, so a
\* syntax error changes nothing.  The keys are then stored one by one in the
\* iteration order of a Go map, and a type mismatch returns at once: the keys
\* stored before it (any subset of the others) stay in the object.
Decode(d, conf) ==
    CASE d.kind = "ok" ->
            {[ok |-> TRUE, conf |-> Overlay(conf, d.vals, DOMAIN d.vals)]}
      [] d.kind = "type" ->
            {[ok |-> FALSE, conf |-> Overlay(conf, d.vals, S)] : S \in SUBSET DOMAIN d.vals}
      [] OTHER ->
            {[ok |-> FALSE, conf |-> conf]}

\* ioutil.ReadFile(cd) returns no error, line 123
ReadOk(files, cd) ==
    /\ cd \in DOMAIN files
    /\ files[cd].kind \in {"ok", "type", "syntax"}

\* the file at cd is read and decoded without error
Decodable(files, cd) ==
    ReadOk(files, cd) /\ files[cd].kind = "ok"

----------------------------------------------------------------------------
(* Manager.LoadConfig, lines 113-141 *)

\* the loop guard of line 118
SkipPath(cd) == cd = ""

\* a search that ends at the first file read, decoded or not
StopSearchOnAnyDecode(r) == TRUE

\* a successful decode ends the search, lines 131-137
StopSearch(r) == r.ok

\* a search that walks the list from its last entry to its first
RECURSIVE LoadFromReversed(_, _, _, _, _)
LoadFromReversed(files, paths, i, conf, reads) ==
    LET k == Len(paths) + 1 - i IN
    IF i > Len(paths)
    THEN {[err |-> "ErrNoConfigFound", conf |-> conf, reads |-> reads, keys |-> {}]}
    ELSE IF paths[k] = ""
    THEN LoadFromReversed(files, paths, i + 1, conf, reads)
    ELSE IF ~ReadOk(files, paths[k])
    THEN LoadFromReversed(files, paths, i + 1, conf, Append(reads, k))
    ELSE UNION {
            IF r.ok
            THEN {[err |-> "nil", conf |-> r.conf, reads |-> Append(reads, k),
                   keys |-> DOMAIN files[paths[k]].vals]}
            ELSE LoadFromReversed(files, paths, i + 1, r.conf, Append(reads, k))
          : r \in Decode(files[paths[k]], conf) }

\* The outcomes of the loop from candidate i on, the object holding conf and
\* the candidates in reads having been read.
RECURSIVE LoadFrom(_, _, _, _, _)
LoadFrom(files, paths, i, conf, reads) ==
    IF i > Len(paths)
    THEN {[err |-> "ErrNoConfigFound", conf |-> conf, reads |-> reads, keys |-> {}]}
    ELSE IF SkipPath(paths[i])
    THEN LoadFrom(files, paths, i + 1, conf, reads)
    ELSE IF ~ReadOk(files, paths[i])
    THEN LoadFrom(files, paths, i + 1, conf, Append(reads, i))
    ELSE UNION {
            IF StopSearch(r)
            THEN {[err |-> "nil", conf |-> r.conf, reads |-> Append(reads, i),
                   keys |-> DOMAIN files[paths[i]].vals]}
            ELSE LoadFrom(files, paths, i + 1, r.conf, Append(reads, i))
          : r \in Decode(files[paths[i]], conf) }

\* a load that decodes into a fresh object instead of the caller's
LoadConfigIntoFresh(files, paths, conf) == LoadFrom(files, paths, 1, ZeroConf, <<>>)

LoadConfigOutcomes(files, paths, conf) == LoadFrom(files, paths, 1, conf, <<>>)

----------------------------------------------------------------------------
(* ioutil.WriteFile(fileName, []byte(defaultConf), 0644), line 88 *)

\* prev is what the path held when the write was made
NoWrite == [called |-> FALSE, name |-> "", data |-> Absent, perm |-> 0, prev |-> Absent]

\* The outcomes of the write.  It fails when the name is no file path, or
\* whenever the environment refuses it: before the file is opened, which
\* leaves the filesystem as it was, or after the file was opened and
\* truncated, which leaves an empty file.
WriteFile(files, name, data) ==
    IF name \notin DOMAIN files
    THEN {[ok |-> FALSE, files |-> files]}
    ELSE { [ok |-> TRUE, files |-> [files EXCEPT ![name] = data]],
           [ok |-> FALSE, files |-> files],
           [ok |-> FALSE,
            files |-> [files EXCEPT ![name] = [kind |-> "ok", vals |-> EmptyTable]]] }

----------------------------------------------------------------------------
(* New, lines 54-106 *)

\* a New that ignores the error of decoding the default document
DefaultDecodeErrorIgnored(r) == FALSE

\* line 76: the default document did not decode
DefaultDecodeFailed(r) == ~r.ok

\* a New that tests the load error the wrong way round
GenerateDefaultInverted(err) == err = "nil"

\* line 85: the load error that makes New generate a file
GenerateDefault(err) == err = "ErrNoConfigFound"

\* a New that exits with status 0 whatever the write did
ExitZeroAlways(ok) == "exit0"

\* lines 89-101: os.Exit(1) after a failed write, os.Exit(0) otherwise
ExitAfterWrite(ok) == IF ok THEN "exit0" ELSE "exit1"

\* lines 84-105, l being what c.LoadConfig() did
Autoload(a, files, l) ==
    IF GenerateDefault(l.err)
    THEN { [pc |-> ExitAfterWrite(w.ok), conf |-> l.conf, fs |-> w.files,
            err |-> l.err, reads |-> l.reads, keys |-> l.keys,
            written |-> [called |-> TRUE, name |-> a.fileName,
                         data |-> a.defaultConf, perm |-> FilePerm,
                         prev |-> IF a.fileName \in DOMAIN files
                                  THEN files[a.fileName] ELSE Absent]]
           : w \in WriteFile(files, a.fileName, a.defaultConf) }
    ELSE { [pc |-> "returned", conf |-> l.conf, fs |-> files,
            err |-> l.err, reads |-> l.reads, keys |-> l.keys,
            written |-> NoWrite] }

\* lines 73-106, conf being the caller's object and paths the list of lines 60-67
NewOutcomes(a, files, paths, conf) ==
    UNION {
        IF DefaultDecodeFailed(r)
        THEN { [pc |-> "failed", conf |-> r.conf, fs |-> files,
                err |-> "none", reads |-> <<>>, keys |-> {}, written |-> NoWrite] }
        ELSE IF ~a.autoload
        THEN { [pc |-> "returned", conf |-> r.conf, fs |-> files,
                err |-> "none", reads |-> <<>>, keys |-> {}, written |-> NoWrite] }
        ELSE UNION { Autoload(a, files, l)
                     : l \in LoadConfigOutcomes(files, paths, r.conf) }
      : r \in Decode(a.defaultConf, conf) }

----------------------------------------------------------------------------
(* The state machine *)

Args == [defaultConf : DefaultDocs, confDir : ConfDirs,
         fileName : FileNames, autoload : BOOLEAN]

NumFiles(files) == Cardinality({p \in DOMAIN files : files[p] # Absent})

Init ==
    /\ args \in Args
    /\ pc = "start"
    /\ confPaths = <<>>
    /\ Conf = ZeroConf
    /\ fs = [p \in AllPaths |-> Absent]
    /\ lastErr = "none"
    /\ readLog = <<>>
    /\ loadedKeys = {}
    /\ dirty = FALSE
    /\ written = NoWrite

\* the program calls New(defaultConf, confDir, fileName, &conf, autoload)
New ==
    /\ pc = "start"
    /\ LET paths == MkConfPaths(args.confDir, args.fileName) IN
       \E o \in NewOutcomes(args, fs, paths, Conf) :
          /\ pc' = o.pc
          /\ confPaths' = paths
          /\ Conf' = o.conf
          /\ fs' = o.fs
          /\ lastErr' = o.err
          /\ readLog' = o.reads
          /\ loadedKeys' = o.keys
          /\ written' = o.written
    /\ dirty' = FALSE
    /\ UNCHANGED args

\* the program calls Manager.LoadConfig() on the Manager New returned
LoadConfig ==
    /\ pc = "returned"
    /\ \E o \in LoadConfigOutcomes(fs, confPaths, Conf) :
          /\ Conf' = o.conf
          /\ lastErr' = o.err
          /\ readLog' = o.reads
          /\ loadedKeys' = o.keys
    /\ dirty' = FALSE
    /\ UNCHANGED <<args, pc, confPaths, fs, written>>

\* the environment creates, replaces or removes the file at a candidate path
\* while the program is outside New and LoadConfig
FsChange ==
    /\ pc \in {"start", "returned"}
    /\ \E p \in CandidateFiles(args), f \in Files :
          /\ f # fs[p]
          /\ NumFiles([fs EXCEPT ![p] = f]) <= MaxFiles
          /\ fs' = [fs EXCEPT ![p] = f]
    /\ dirty' = (lastErr # "none")
    /\ UNCHANGED <<args, pc, confPaths, Conf, lastErr, readLog, loadedKeys, written>>

Next == New \/ LoadConfig \/ FsChange

Spec == Init /\ [][Next]_vars

----------------------------------------------------------------------------
(* Vocabulary of the properties *)

\* the values the default document gives the object at construction
Defaults == Overlay(ZeroConf, args.defaultConf.vals, DOMAIN args.defaultConf.vals)

\* candidate i is a non-empty path whose file reads and decodes
CanLoad(i) == confPaths[i] # "" /\ Decodable(fs, confPaths[i])

\* candidate i holds a file that is read but does not decode
Malformed(files, cd) == ReadOk(files, cd) /\ files[cd].kind # "ok"

\* the non-empty candidates up to k, in list order
TriedUpTo(k) == SelectSeq([i \in 1..k |-> i], LAMBDA i : confPaths[i] # "")

\* no file exists at any candidate path
NoFileAnywhere == \A p \in DOMAIN fs : fs[p] = Absent

\* no candidate of the arguments reads and decodes
NothingLoads ==
    LET paths == MkConfPaths(args.confDir, args.fileName) IN
    \A i \in 1..Len(paths) : ~(paths[i] # "" /\ Decodable(fs, paths[i]))

\* the document the most recent successful call decoded
LoadedDoc == fs[confPaths[readLog[Len(readLog)]]]

\* a Manager exists, its most recent LoadConfig call has returned and the
\* filesystem is as that call saw it
AfterCall == pc = "returned" /\ lastErr # "none" /\ ~dirty

\* a step that is a LoadConfig call on the returned Manager
LoadStep == pc = "returned" /\ pc' = "returned" /\ fs' = fs

\* a step that is the call of New
NewStep == pc = "start" /\ pc' # "start"

----------------------------------------------------------------------------
(* C1: a successful LoadConfig call has read the non-empty candidates in    *)
(* list order up to the first one that reads and decodes, has read none    *)
(* after it, and has overlaid the object from that one.                    *)
C1_FirstLoadableCandidateWins ==
    (AfterCall /\ lastErr = "nil") =>
        \E k \in 1..Len(confPaths) :
            /\ CanLoad(k)
            /\ \A j \in 1..(k - 1) : ~CanLoad(j)
            /\ readLog = TriedUpTo(k)
            /\ \A f \in DOMAIN fs[confPaths[k]].vals :
                   Conf[f] = fs[confPaths[k]].vals[f]

\* two candidates load at the same time and the call stopped at the earlier one
C1_Witness ==
    /\ AfterCall /\ lastErr = "nil"
    /\ \E i, j \in 1..Len(confPaths) :
          /\ i < j /\ CanLoad(i) /\ CanLoad(j)
          /\ readLog[Len(readLog)] = i
          /\ fs[confPaths[i]].vals # fs[confPaths[j]].vals

(* C2: a LoadConfig call returns nil exactly when some non-empty candidate  *)
(* reads and decodes at that moment, and ErrNoConfigFound otherwise, after *)
(* having tried every non-empty candidate.                                 *)
C2_SuccessIffSomeCandidateLoads ==
    AfterCall =>
        /\ lastErr \in {"nil", "ErrNoConfigFound"}
        /\ lastErr = "nil" <=> \E i \in 1..Len(confPaths) : CanLoad(i)
        /\ lastErr = "ErrNoConfigFound" => readLog = TriedUpTo(Len(confPaths))

\* a malformed file at the first candidate, a valid one lower down, success
C2_Witness ==
    /\ AfterCall /\ lastErr = "nil"
    /\ Malformed(fs, confPaths[1])
    /\ Len(readLog) >= 2

(* C3: after a successful LoadConfig call every field present in the        *)
(* decoded document holds that document's value and every field absent     *)
(* from it holds its default value.                                        *)
C3_AbsentFieldsHoldDefaults ==
    (AfterCall /\ lastErr = "nil") =>
        \A f \in Fields :
            IF f \in DOMAIN LoadedDoc.vals
            THEN Conf[f] = LoadedDoc.vals[f]
            ELSE Conf[f] = Defaults[f]

(* C4: in an autoload construction whose load returns ErrNoConfigFound the  *)
(* default document is written unchanged to fileName with mode 0644 and    *)
(* the process exits with status 0, or with a non-zero status when the     *)
(* write fails; a Manager is returned only when the load succeeded.        *)
C4_AutoloadNotFoundWritesAndExits ==
    [][ (NewStep /\ args.autoload /\ pc' # "failed") =>
          \/ /\ lastErr' = "nil"
             /\ pc' = "returned"
             /\ written' = NoWrite
             /\ fs' = fs
          \/ /\ lastErr' = "ErrNoConfigFound"
             /\ pc' \in {"exit0", "exit1"}
             /\ written'.called
             /\ written'.name = args.fileName
             /\ written'.data = args.defaultConf
             /\ written'.perm = FilePerm
             /\ pc' = "exit0" <=>
                   (args.fileName \in DOMAIN fs' /\ fs'[args.fileName] = args.defaultConf)
      ]_vars

\* nothing loaded, the default document was written and the process exited 0
C4_Witness ==
    /\ pc = "exit0"
    /\ args.autoload
    /\ lastErr = "ErrNoConfigFound"
    /\ fs[args.fileName] = args.defaultConf

(* C5: with an empty custom directory the first candidate is skipped:       *)
(* LoadConfig reads no file for that entry.                                *)
C5_EmptyCustomDirIsSkipped ==
    args.confDir = "" => \A n \in 1..Len(readLog) : readLog[n] # 1

C7_LoadConfigIdempotent ==
    [][ (LoadStep /\ lastErr # "none" /\ ~dirty) =>
            lastErr' = lastErr /\ Conf' = Conf
      ]_vars

(* C8: when the default document fails to decode New returns an error and   *)
(* no Manager, reads no candidate, writes no file and does not exit.       *)
C8_BadDefaultAbortsConstruction ==
    [][ (NewStep /\ args.defaultConf.kind # "ok") =>
            /\ pc' = "failed"
            /\ readLog' = <<>>
            /\ lastErr' = "none"
            /\ written' = NoWrite
            /\ fs' = fs
      ]_vars

\* an autoload construction with a malformed default and files to be found
C8_Witness ==
    /\ pc = "failed"
    /\ args.autoload
    /\ ~NothingLoads

(* C9: when a LoadConfig call succeeds from document A and the next call    *)
(* succeeds from document B, every field set by A and absent from B still  *)
(* holds A's value.                                                        *)
C9_ReloadKeepsEarlierValues ==
    [][ (LoadStep /\ lastErr = "nil" /\ lastErr' = "nil") =>
            \A f \in loadedKeys \ loadedKeys' : Conf'[f] = Conf[f]
      ]_vars

(* C10: in an autoload construction the default document is written to      *)
(* fileName exactly when every candidate fails to be read or decoded; a    *)
(* file that exists there but did not decode has its content replaced by   *)
(* the default document before the process exits.                          *)
C10_MalformedFileIsReplaced ==
    [][ (NewStep /\ args.autoload /\ pc' # "failed") =>
          /\ written'.called <=> NothingLoads
          /\ (NothingLoads /\ args.fileName \in DOMAIN fs
                 /\ fs[args.fileName] # Absent) =>
                /\ pc' \in {"exit0", "exit1"}
                /\ fs'[args.fileName] = args.defaultConf
      ]_vars

(* C10 as amended: the write is attempted exactly when every candidate      *)
(* fails; when it succeeds the file holds the default document and the     *)
(* process exits 0, when it fails the file does not and the process exits  *)
(* with a non-zero status.                                                 *)
C10_WriteAttemptedWhenNothingLoads ==
    [][ (NewStep /\ args.autoload /\ pc' # "failed") =>
          /\ written'.called <=> NothingLoads
          /\ written'.called =>
                /\ written'.name = args.fileName
                /\ written'.data = args.defaultConf
                /\ pc' \in {"exit0", "exit1"}
          /\ (NothingLoads /\ args.fileName \in DOMAIN fs) =>
                (pc' = "exit0" <=> fs'[args.fileName] = args.defaultConf)
      ]_vars

\* a malformed file in the working directory was replaced by the default document
C10_Witness ==
    /\ pc = "exit0"
    /\ written.called
    /\ written.prev.kind \in {"type", "syntax"}
    /\ fs[args.fileName] = args.defaultConf

====
